---- MODULE Spec2Model ----
(***************************************************************************)
(* Model of uqcsbot/scripts/trivia.py: the trivia round workflow.          *)
(*                                                                         *)
(* A round is one invocation of handle_trivia or trivia_cron_job: fetch a  *)
(* question, post it, attach the answer markers, register the reveal job;  *)
(* when the job fires, read the reactions of the anchor message, resolve   *)
(* the correct users, update the leaderboard table and post the answer.    *)
(*                                                                         *)
(* Times of a job are seconds relative to the instant schedule_action ran  *)
(* for that job (its own "now" is 0).                                      *)
(***************************************************************************)
EXTENDS FiniteSets, Integers, Sequences, TLC

(* ---------------------------- bounds ----------------------------------- *)
MaxRounds == 2      \* invocations of the command / the cron job
MaxUsers == 2       \* human users 1..MaxUsers
MaxReacts == 2      \* reactions of human users present at one time
MaxInitScore == 1   \* highest score in the table before the first round
MaxRequested == 310 \* highest value of -s tried in the delay specification
MaxTally == 2       \* entries of a tally drawn in the tally specification

(* ------------------------ program constants ---------------------------- *)
MIN_SECONDS == 5
MAX_SECONDS == 300
CRON_SECONDS == 600
DEFAULT_SECONDS == 30
CRON_CHANNEL == "general"
BOOLEAN_REACTS == <<"this", "not-this">>
MULTIPLE_CHOICE_REACTS == <<"green_heart", "yellow_heart", "heart", "blue_heart">>
CHOICE_COLORS == <<"#6C9935", "#F3C200", "#B6281E", "#3176EF">>

Bot == 0
Humans == 1..MaxUsers
Users == {Bot} \cup Humans
Rounds == 1..MaxRounds
Channels == {CRON_CHANNEL, "random"}
StrayMarker == "tada"
Markers == {BOOLEAN_REACTS[i] : i \in 1..Len(BOOLEAN_REACTS)}
             \cup {MULTIPLE_CHOICE_REACTS[i] : i \in 1..Len(MULTIPLE_CHOICE_REACTS)}
             \cup {StrayMarker}

Range(s) == {s[i] : i \in 1..Len(s)}
Min(a, b) == IF a < b THEN a ELSE b
Max(a, b) == IF a > b THEN a ELSE b

(* --------------------- the question provider --------------------------- *)
\* The provider sends every text base64-encoded; an encoded text is the pair
\* <<"b64", text>>.
Enc(s) == <<"b64", s>>
decode_b64(encoded) == encoded[2]

NoRecord == [question |-> Enc(""), correct_answer |-> Enc(""), incorrect_answers |-> <<>>]
TrueRecord == [question |-> Enc("Q_true"), correct_answer |-> Enc("True"),
               incorrect_answers |-> <<Enc("False")>>]
FalseRecord == [question |-> Enc("Q_false"), correct_answer |-> Enc("False"),
                incorrect_answers |-> <<Enc("True")>>]
ChoiceRecord == [question |-> Enc("Q_choice"), correct_answer |-> Enc("A"),
                 incorrect_answers |-> <<Enc("B"), Enc("C"), Enc("D")>>]
AllRecords == {TrueRecord, FalseRecord, ChoiceRecord}

\* What requests.get(API_URL) can answer: a bad HTTP status, response_code 2
\* (invalid category), another non-zero response_code, or one question.
FetchFailures ==
    {[http_ok |-> FALSE, response_code |-> 0, result |-> NoRecord],
     [http_ok |-> TRUE, response_code |-> 2, result |-> NoRecord],
     [http_ok |-> TRUE, response_code |-> 1, result |-> NoRecord]}

Responses(records, failures) ==
    failures \cup {[http_ok |-> TRUE, response_code |-> 0, result |-> rec] : rec \in records}

\* random.shuffle: every permutation of the list.
Shuffles(s) ==
    {t \in [1..Len(s) -> Range(s)] :
        \E p \in [1..Len(s) -> 1..Len(s)] :
            /\ \A i, j \in 1..Len(s) : i # j => p[i] # p[j]
            /\ \A i \in 1..Len(s) : t[i] = s[p[i]]}

NoQuestion == [question |-> "", correct_answer |-> "", answers |-> <<>>, is_boolean |-> FALSE]

\* get_question_data, lines 194-210: the QuestionData before the shuffle.
QuestionOf(rec) ==
    [question |-> decode_b64(rec.question),
     correct_answer |-> decode_b64(rec.correct_answer),
     answers |-> [i \in 1..(1 + Len(rec.incorrect_answers)) |->
                    decode_b64((<<rec.correct_answer>> \o rec.incorrect_answers)[i])],
     is_boolean |-> (Len(rec.incorrect_answers) = 1)]

\* get_question_data: the error message posted (as a 1-tuple), or <<>>.
FetchError(resp) ==
    IF ~resp.http_ok THEN <<"There was a problem getting the response">>
    ELSE IF resp.response_code = 2 THEN <<"Invalid category id">>
    ELSE IF resp.response_code # 0 THEN <<"No results were returned">>
    ELSE <<>>

\* get_question_data: the questions it can return for a good response.
get_question_data(resp) ==
    {[QuestionOf(resp.result) EXCEPT !.answers = a] :
        a \in Shuffles(QuestionOf(resp.result).answers)}

(* ----------------------------- markers --------------------------------- *)
\* Python's list.index, 0-based.
IndexOf(s, x) == (CHOOSE i \in 1..Len(s) : s[i] = x /\ \A j \in 1..(i - 1) : s[j] # x) - 1

IndexError == "IndexError"

get_correct_reaction(q) ==
    IF q.is_boolean
    THEN (IF q.correct_answer = "True" THEN BOOLEAN_REACTS[1] ELSE BOOLEAN_REACTS[2])
    ELSE (IF IndexOf(q.answers, q.correct_answer) + 1 \in 1..Len(MULTIPLE_CHOICE_REACTS)
          THEN MULTIPLE_CHOICE_REACTS[IndexOf(q.answers, q.correct_answer) + 1]
          ELSE IndexError)

\* handle_question, lines 141-144.
AnswerText(q) ==
    IF q.is_boolean
    THEN (IF q.correct_answer = "True" THEN BOOLEAN_REACTS[1] ELSE BOOLEAN_REACTS[2])
    ELSE q.correct_answer

(* ------------------------- reaction tallies ---------------------------- *)
\* A tally is the list reactions.get returns: one entry per marker present,
\* in the order the markers were first attached.
HasName(reactions, name) == \E i \in 1..Len(reactions) : reactions[i].name = name

AddUser(reactions, name, u) ==
    IF HasName(reactions, name)
    THEN [i \in 1..Len(reactions) |->
            IF reactions[i].name = name
            THEN [reactions[i] EXCEPT !.users = @ \cup {u}]
            ELSE reactions[i]]
    ELSE Append(reactions, [name |-> name, users |-> {u}])

RemoveUser(reactions, name, u) ==
    SelectSeq([i \in 1..Len(reactions) |->
                 IF reactions[i].name = name
                 THEN [reactions[i] EXCEPT !.users = @ \ {u}]
                 ELSE reactions[i]],
              LAMBDA e : e.users # {})

\* post_question, lines 233-234: the bot attaches the markers in list order;
\* ok is the set of markers for which reactions.add succeeded.
RECURSIVE AttachAll(_, _, _)
AttachAll(reactions, todo, ok) ==
    IF todo = <<>> THEN reactions
    ELSE AttachAll(IF Head(todo) \in ok THEN AddUser(reactions, Head(todo), Bot) ELSE reactions,
                   Tail(todo), ok)

\* get_correct_users, lines 350-358: the users of the first entry whose name
\* is the correct reaction.
FirstUsers(reactions, correct_reaction) ==
    reactions[CHOOSE i \in 1..Len(reactions) :
                /\ reactions[i].name = correct_reaction
                /\ \A j \in 1..(i - 1) : reactions[j].name # correct_reaction].users

\* Mutant: the boolean pair is not recognised as a family.
ValidReactionsChoiceOnly(correct_reaction) == Range(MULTIPLE_CHOICE_REACTS)

\* Mutant: every marker counts as a marker of the family.
ValidReactionsAnyMarker(correct_reaction) == Markers

\* get_correct_users, lines 361-362.
ValidReactions(correct_reaction) ==
    IF correct_reaction = BOOLEAN_REACTS[1] \/ correct_reaction = BOOLEAN_REACTS[2]
    THEN Range(BOOLEAN_REACTS) ELSE Range(MULTIPLE_CHOICE_REACTS)

\* get_correct_users, lines 364-366.
RECURSIVE Disqualify(_, _, _)
Disqualify(correct_users, reactions, correct_reaction) ==
    IF reactions = <<>> THEN correct_users
    ELSE Disqualify(
           IF /\ Head(reactions).name # correct_reaction
              /\ Head(reactions).name \in ValidReactions(correct_reaction)
           THEN correct_users \ Head(reactions).users
           ELSE correct_users,
           Tail(reactions), correct_reaction)

get_correct_users(reactions, correct_reaction) ==
    IF ~HasName(reactions, correct_reaction) THEN {}
    ELSE Disqualify(FirstUsers(reactions, correct_reaction), reactions, correct_reaction)

(* ----------------------------- scheduler ------------------------------- *)
NoJob == [seconds |-> 0, next_run_time |-> 0, end_date |-> 0]

\* Mutant: the end date is two periods away.
schedule_action_LateEnd(secs) ==
    LET now == 0
    IN [seconds |-> secs, next_run_time |-> now + secs, end_date |-> now + 2 * secs]

\* schedule_action: an interval job of period secs whose first run is one
\* period after registration and whose end date is now + secs + 1.
schedule_action(secs) ==
    LET now == 0
    IN [seconds |-> secs, next_run_time |-> now + secs, end_date |-> now + secs + 1]

\* Mutant: the end date is compared with the run just made.
AfterRun_OneMore(j) ==
    IF j.next_run_time > j.end_date THEN NoJob
    ELSE [j EXCEPT !.next_run_time = @ + j.seconds]

\* The job after a run: the next run is one period later; a job whose next run
\* would be past its end date is removed.
AfterRun(j) ==
    IF j.next_run_time + j.seconds > j.end_date THEN NoJob
    ELSE [j EXCEPT !.next_run_time = @ + j.seconds]

\* Mutant: no upper limit.
ClampSeconds_NoMax(seconds) == Max(MIN_SECONDS, seconds)

\* parse_arguments, lines 103-104.
ClampSeconds(seconds) == Min(Max(MIN_SECONDS, seconds), MAX_SECONDS)

(* ------------------------------- state --------------------------------- *)
VARIABLES
    pc,              \* per round: where the invocation / its reveal callback is
    question_data,   \* per round: the QuestionData the closure holds
    post_timestamp,  \* per round: <<channel, ts>> of the anchor message
    job,             \* per round: the scheduler's job for the reveal
    runs,            \* per round: how often the scheduler ran the callback
    reaction_users,  \* per round: the tally update_leaderboard read
    correct_users,   \* per round: result of get_correct_users
    existing_users,  \* per round: the rows the session loaded (user -> score)
    failure,         \* per round: the error the reveal met, "" if none
    messages,        \* every message posted, in order, with its reactions
    db,              \* trivia_leaderboard: user -> score, 0 = no row
    db0,             \* the table before the first round
    command          \* per round: what started it, and the -s value as given

vars == <<pc, question_data, post_timestamp, job, runs, reaction_users, correct_users,
          existing_users, failure, messages, db, db0, command>>

\* What starts a round: !trivia with the value of -s as parsed (line 89), or
\* the cron trigger, whose arguments leave -s at its default.
NoCommand == [source |-> "", seconds |-> 0]
Trivia(seconds) == [source |-> "trivia", seconds |-> seconds]
Cron == [source |-> "cron", seconds |-> DEFAULT_SECONDS]
Leaderboard == [source |-> "leaderboard", seconds |-> DEFAULT_SECONDS]

NoTimestamp == <<"", 0>>
NoRows == [u \in Users |-> 0]

\* Slack timestamps identify a message within its channel.
NextTs(msgs, channel) ==
    Cardinality({i \in 1..Len(msgs) : msgs[i].channel = channel}) + 1

Post(msgs, channel, inv, kind, body) ==
    Append(msgs, [channel |-> channel, ts |-> NextTs(msgs, channel), inv |-> inv,
                  kind |-> kind, body |-> body, reactions |-> <<>>])

\* Mutant: the message is looked up by its timestamp alone.
MsgAt_AnyChannel(msgs, stamp) ==
    CHOOSE i \in 1..Len(msgs) : msgs[i].ts = stamp[2]

MsgAt(msgs, stamp) ==
    CHOOSE i \in 1..Len(msgs) : msgs[i].channel = stamp[1] /\ msgs[i].ts = stamp[2]

React(msgs, stamp, names, ok) ==
    [msgs EXCEPT ![MsgAt(msgs, stamp)].reactions = AttachAll(@, names, ok)]

\* post_possible_answers, line 260: zip stops at the shorter list.
PossibleAnswers(answers) == SubSeq(answers, 1, Min(Len(answers), Len(CHOICE_COLORS)))

\* post_question: the messages after posting question q, and the anchor.
post_question(msgs, channel, inv, q, ok) ==
    LET m1 == Post(msgs, channel, inv, "question", <<q.question>>)
        m2 == IF q.is_boolean THEN m1
              ELSE Post(m1, channel, inv, "answers", PossibleAnswers(q.answers))
        stamp == <<channel, m2[Len(m2)].ts>>
        names == IF q.is_boolean THEN BOOLEAN_REACTS ELSE MULTIPLE_CHOICE_REACTS
    IN [messages |-> React(m2, stamp, names, ok), ts |-> stamp]

TypeOK ==
    /\ pc \in [Rounds -> {"idle", "aborted", "waiting", "queried", "settled", "done", "crashed",
                         "listed"}]
    /\ runs \in [Rounds -> Nat]
    /\ correct_users \in [Rounds -> SUBSET Users]
    /\ existing_users \in [Rounds -> [Users -> Nat]]
    /\ failure \in [Rounds -> {"", "reaction_query", "query", "commit", "index",
                              "lookup", "empty"}]
    /\ db \in [Users -> Nat]
    /\ command \in [Rounds -> [source : {"", "trivia", "cron", "leaderboard"}, seconds : Int]]

InitRounds ==
    /\ pc = [r \in Rounds |-> "idle"]
    /\ question_data = [r \in Rounds |-> NoQuestion]
    /\ post_timestamp = [r \in Rounds |-> NoTimestamp]
    /\ job = [r \in Rounds |-> NoJob]
    /\ runs = [r \in Rounds |-> 0]
    /\ reaction_users = [r \in Rounds |-> <<>>]
    /\ correct_users = [r \in Rounds |-> {}]
    /\ existing_users = [r \in Rounds |-> NoRows]
    /\ failure = [r \in Rounds |-> ""]
    /\ command = [r \in Rounds |-> NoCommand]
    /\ messages = <<>>

\* The bot has no row; a human has none or one with a positive score.
InitDb ==
    /\ db \in {d \in [Users -> 0..MaxInitScore] : d[Bot] = 0}
    /\ db0 = db

Init == InitRounds /\ InitDb

(* --------------------------- starting a round -------------------------- *)
\* Invocations take the round numbers in order.
IsNext(r) == pc[r] = "idle" /\ \A r2 \in 1..(r - 1) : pc[r2] # "idle"

\* handle_question(channel, args, score_counts=True); trailing is the kind of
\* the message the caller posts afterwards (<<>> if none).
handle_question(r, channel, seconds, resp, q, ok, trailing) ==
    LET err == FetchError(resp)
        posted == post_question(messages, channel, r, q, ok)
        after == IF err # <<>> THEN Post(messages, channel, r, "error", err)
                 ELSE posted.messages
    IN /\ IsNext(r)
       /\ messages' = (IF trailing = <<>> THEN after
                       ELSE Post(after, channel, r, trailing[1], <<>>))
       /\ IF err # <<>>
          THEN /\ pc' = [pc EXCEPT ![r] = "aborted"]
               /\ UNCHANGED <<question_data, post_timestamp, job>>
          ELSE /\ pc' = [pc EXCEPT ![r] = "waiting"]
               /\ question_data' = [question_data EXCEPT ![r] = q]
               /\ post_timestamp' = [post_timestamp EXCEPT ![r] = posted.ts]
               /\ job' = [job EXCEPT ![r] = schedule_action(seconds)]
       /\ UNCHANGED <<runs, reaction_users, correct_users, existing_users, failure, db, db0>>

\* The outcomes of the reactions.add calls: the sets of markers that can end
\* up attached (the result of reactions.add is not looked at).
AddOutcomes(q, may_fail) ==
    LET family == IF q.is_boolean THEN Range(BOOLEAN_REACTS) ELSE Range(MULTIPLE_CHOICE_REACTS)
    IN IF may_fail THEN SUBSET family ELSE {family}

QuestionsFor(resp) == IF FetchError(resp) # <<>> THEN {NoQuestion} ELSE get_question_data(resp)

\* The inputs of an invocation are drawn from in: the provider's records and
\* failures, the values of -s, the channels, whether reactions.add may fail.
\* handle_trivia with a question request: !trivia [-s N]
handle_trivia(r, in) ==
    \E channel \in in.channels, seconds \in in.seconds :
        \E resp \in Responses(in.records, in.failures) :
            \E q \in QuestionsFor(resp) :
                \E ok \in AddOutcomes(q, in.add_may_fail) :
                    /\ handle_question(r, channel, ClampSeconds(seconds), resp, q, ok, <<>>)
                    /\ command' = [command EXCEPT ![r] = Trivia(seconds)]

\* trivia_cron_job
trivia_cron_job(r, in) ==
    \E resp \in Responses(in.records, in.failures) :
        \E q \in QuestionsFor(resp) :
            \E ok \in AddOutcomes(q, in.add_may_fail) :
                /\ handle_question(r, CRON_CHANNEL, CRON_SECONDS, resp, q, ok, <<"cron_notice">>)
                /\ command' = [command EXCEPT ![r] = Cron]

(* ------------------------- the leaderboard table ----------------------- *)
\* The users of a set in ascending order.
RECURSIVE SortedSeq(_)
SortedSeq(S) ==
    IF S = {} THEN <<>>
    ELSE LET m == CHOOSE x \in S : \A y \in S : x <= y
         IN <<m>> \o SortedSeq(S \ {m})

\* update_leaderboard, line 332: the rows of the users in correct, as the
\* session loads them.
session_query(d, correct) == [u \in Users |-> IF u \in correct THEN d[u] ELSE 0]

\* Mutant: users without a row are not added.
PendingWritesNoInsert(existing, correct) ==
    LET loaded == {u \in correct : existing[u] > 0}
    IN [i \in 1..Cardinality(loaded) |->
            [op |-> "update", user_id |-> SortedSeq(loaded)[i],
             score |-> existing[SortedSeq(loaded)[i]] + 1]]

\* update_leaderboard, lines 334-339: what the session holds at commit: an
\* UPDATE (score = loaded score + 1) per loaded row, then an INSERT (score 1)
\* per user without a loaded row.
PendingWrites(existing, correct) ==
    LET loaded == {u \in correct : existing[u] > 0}
    IN [i \in 1..Cardinality(loaded) |->
            [op |-> "update", user_id |-> SortedSeq(loaded)[i],
             score |-> existing[SortedSeq(loaded)[i]] + 1]]
       \o [i \in 1..Cardinality(correct \ loaded) |->
            [op |-> "insert", user_id |-> SortedSeq(correct \ loaded)[i], score |-> 1]]

\* The table after the first k statements of the flush.
Flush(d, writes, k) ==
    [u \in Users |->
        IF \E i \in 1..k : writes[i].user_id = u
        THEN writes[CHOOSE i \in 1..k : writes[i].user_id = u].score
        ELSE d[u]]

\* user_id is unique (line 298): an INSERT for a user who has a row by now is
\* rejected.  The number of statements that run before the first rejection.
AcceptedWrites(d, writes) ==
    IF \E i \in 1..Len(writes) : writes[i].op = "insert" /\ d[writes[i].user_id] # 0
    THEN (CHOOSE i \in 1..Len(writes) :
            /\ writes[i].op = "insert" /\ d[writes[i].user_id] # 0
            /\ \A j \in 1..(i - 1) : ~(writes[j].op = "insert" /\ d[writes[j].user_id] # 0)) - 1
    ELSE Len(writes)

\* Mutant: every statement is committed on its own.
session_commit_autocommit(d, writes, stop) ==
    IF stop > Len(writes) /\ AcceptedWrites(d, writes) = Len(writes)
    THEN [table |-> Flush(d, writes, Len(writes)), ok |-> TRUE]
    ELSE [table |-> Flush(d, writes, Min(stop, AcceptedWrites(d, writes))), ok |-> FALSE]

\* session.commit(), line 341: the flush and the COMMIT are one transaction;
\* stop is the number of statements the database runs before it fails
\* (Len(writes) + 1: it does not fail).  The result is the table and whether
\* the commit succeeded.
session_commit(d, writes, stop) ==
    IF stop > Len(writes) /\ AcceptedWrites(d, writes) = Len(writes)
    THEN [table |-> Flush(d, writes, Len(writes)), ok |-> TRUE]
    ELSE [table |-> d, ok |-> FALSE]

(* ---------------------------- the reveal ------------------------------- *)
\* Mutant: the tally as it was when the question was posted (the bot's own
\* reactions only).
reactions_get_AtPost(msgs, stamp) ==
    SelectSeq([i \in 1..Len(msgs[MsgAt(msgs, stamp)].reactions) |->
                 [msgs[MsgAt(msgs, stamp)].reactions[i] EXCEPT !.users = @ \cap {Bot}]],
              LAMBDA e : e.users # {})

\* bot.api.reactions.get(channel, timestamp): the live tally of the message.
reactions_get(msgs, stamp) == msgs[MsgAt(msgs, stamp)].reactions

InCallback(r) == pc[r] \in {"queried", "settled"}

\* get_correct_reaction raises (line 249): the callback ends there.
RevealIndexError(r) ==
    /\ pc' = [pc EXCEPT ![r] = "crashed"]
    /\ failure' = [failure EXCEPT ![r] = "index"]
    /\ UNCHANGED <<reaction_users, correct_users, existing_users, messages>>

\* Mutant: the failed query raises instead of returning.
RevealQueryFailedRaises(r) ==
    /\ pc' = [pc EXCEPT ![r] = "crashed"]
    /\ failure' = [failure EXCEPT ![r] = "reaction_query"]
    /\ messages' = Post(messages, post_timestamp[r][1], r, "score_error", <<>>)
    /\ UNCHANGED <<reaction_users, correct_users, existing_users>>

\* update_leaderboard, lines 314-316: the query is not ok or not for a
\* message; the error is posted and update_leaderboard returns to line 154.
RevealQueryFailed(r) ==
    /\ pc' = [pc EXCEPT ![r] = "settled"]
    /\ failure' = [failure EXCEPT ![r] = "reaction_query"]
    /\ messages' = Post(messages, post_timestamp[r][1], r, "score_error", <<>>)
    /\ UNCHANGED <<reaction_users, correct_users, existing_users>>

\* update_leaderboard, lines 318-332: the tally is read, the correct users
\* resolved and their rows loaded.
RevealLoaded(r, tally, correct) ==
    /\ pc' = [pc EXCEPT ![r] = "queried"]
    /\ reaction_users' = [reaction_users EXCEPT ![r] = tally]
    /\ correct_users' = [correct_users EXCEPT ![r] = correct]
    /\ existing_users' = [existing_users EXCEPT ![r] = session_query(db, correct)]
    /\ failure' = [failure EXCEPT ![r] = ""]
    /\ UNCHANGED messages

\* session.query raises (line 332): the callback ends there.
RevealDbFailed(r) ==
    /\ pc' = [pc EXCEPT ![r] = "crashed"]
    /\ failure' = [failure EXCEPT ![r] = "query"]
    /\ UNCHANGED <<reaction_users, correct_users, existing_users, messages>>

\* The scheduler runs the job of round r: post_answer_update_score up to the
\* session's query (lines 152-153, 312-332).  query is the outcome of
\* reactions.get, dbq that of session.query.
Reveal(r, query, dbq) ==
    LET correct_reaction == get_correct_reaction(question_data[r])
        tally == reactions_get(messages, post_timestamp[r])
        correct == get_correct_users(tally, correct_reaction)
    IN /\ job[r] # NoJob
       /\ ~InCallback(r)
       /\ runs' = [runs EXCEPT ![r] = @ + 1]
       /\ job' = [job EXCEPT ![r] = AfterRun(@)]
       /\ IF correct_reaction = IndexError THEN RevealIndexError(r)
          ELSE IF query # "ok" THEN RevealQueryFailed(r)
          ELSE IF dbq = "ok" THEN RevealLoaded(r, tally, correct)
          ELSE RevealDbFailed(r)
       /\ UNCHANGED <<question_data, post_timestamp, db, db0, command>>

\* update_leaderboard, lines 334-341: the commit of round r's session.  An
\* exception leaves post_answer_update_score before post_answer().  The
\* locals of update_leaderboard end with it.
Commit(r, stop) ==
    LET writes == PendingWrites(existing_users[r], correct_users[r])
        result == session_commit(db, writes, stop)
    IN /\ pc[r] = "queried"
       /\ stop \in 0..(Len(writes) + 1)
       /\ db' = result.table
       /\ IF result.ok
          THEN /\ pc' = [pc EXCEPT ![r] = "settled"]
               /\ UNCHANGED failure
          ELSE /\ pc' = [pc EXCEPT ![r] = "crashed"]
               /\ failure' = [failure EXCEPT ![r] = "commit"]
       /\ reaction_users' = [reaction_users EXCEPT ![r] = <<>>]
       /\ correct_users' = [correct_users EXCEPT ![r] = {}]
       /\ existing_users' = [existing_users EXCEPT ![r] = NoRows]
       /\ UNCHANGED <<question_data, post_timestamp, job, runs, messages, db0, command>>

\* post_answer(), line 154.
PostAnswer(r) ==
    /\ pc[r] = "settled"
    /\ pc' = [pc EXCEPT ![r] = "done"]
    /\ messages' = Post(messages, post_timestamp[r][1], r, "answer",
                        <<question_data[r].question, AnswerText(question_data[r])>>)
    /\ UNCHANGED <<question_data, post_timestamp, job, runs, reaction_users, correct_users,
                   existing_users, failure, db, db0, command>>

(* --------------------------- the leaderboard --------------------------- *)
\* session.query(UserScore).all(), line 380: the rows of the table as user
\* ids, in an order the query does not fix.
AllRows(d) == Shuffles(SortedSeq({u \in Users : d[u] >= 1}))

\* The user directory: the display name of a user id.
display_name(u) == <<"display_name", u>>

\* bot.users.get(user_id).display_name fails for the ids in unknown.
LookupFails(user_scores, unknown) ==
    \E i \in 1..Len(user_scores) : user_scores[i] \in unknown

\* show_leaderboard, lines 380-394: the names are looked up for every row
\* (line 381), the longest name is taken (line 383, ValueError on an empty
\* list), and the table is posted with the rows in the order of the query.
show_leaderboard(r, channel, user_scores, unknown) ==
    LET rows == [i \in 1..Len(user_scores) |->
                    [name |-> display_name(user_scores[i]), score |-> db[user_scores[i]]]]
        error == IF LookupFails(user_scores, unknown) THEN "lookup"
                 ELSE IF user_scores = <<>> THEN "empty"
                 ELSE ""
    IN /\ IsNext(r)
       /\ command' = [command EXCEPT ![r] = Leaderboard]
       /\ IF error # ""
          THEN /\ pc' = [pc EXCEPT ![r] = "crashed"]
               /\ failure' = [failure EXCEPT ![r] = error]
               /\ UNCHANGED messages
          ELSE /\ pc' = [pc EXCEPT ![r] = "listed"]
               /\ messages' = Post(messages, channel, r, "leaderboard", rows)
               /\ UNCHANGED failure
       /\ UNCHANGED <<question_data, post_timestamp, job, runs, reaction_users, correct_users,
                      existing_users, db, db0>>

\* handle_trivia with -l, lines 58-61; unknowns are the sets of user ids the
\* directory may be unable to resolve.
handle_trivia_leaderboard(r, channels, unknowns) ==
    \E channel \in channels, user_scores \in AllRows(db), unknown \in unknowns :
        show_leaderboard(r, channel, user_scores, unknown)

(* ------------------------- users reacting ------------------------------ *)
HumanReacts ==
    LET RECURSIVE Count(_, _)
        Count(i, j) ==
            IF i > Len(messages) THEN 0
            ELSE IF j > Len(messages[i].reactions) THEN Count(i + 1, 1)
            ELSE Cardinality(messages[i].reactions[j].users \ {Bot}) + Count(i, j + 1)
    IN Count(1, 1)

\* The round's question is posted and its reveal has not run yet.
IsOpen(r) == pc[r] = "waiting"

\* A user attaches a marker to the anchor message of an open round.
AddReaction(u, r, name) ==
    LET i == MsgAt(messages, post_timestamp[r])
    IN /\ IsOpen(r)
       /\ HumanReacts < MaxReacts
       /\ \A j \in 1..Len(messages[i].reactions) :
              messages[i].reactions[j].name = name => u \notin messages[i].reactions[j].users
       /\ messages' = [messages EXCEPT ![i].reactions = AddUser(@, name, u)]
       /\ UNCHANGED <<pc, question_data, post_timestamp, job, runs, reaction_users,
                      correct_users, existing_users, failure, db, db0, command>>

\* A user takes a marker of theirs off the anchor message of an open round.
RemoveReaction(u, r, name) ==
    LET i == MsgAt(messages, post_timestamp[r])
    IN /\ IsOpen(r)
       /\ \E j \in 1..Len(messages[i].reactions) :
              messages[i].reactions[j].name = name /\ u \in messages[i].reactions[j].users
       /\ messages' = [messages EXCEPT ![i].reactions = RemoveUser(@, name, u)]
       /\ UNCHANGED <<pc, question_data, post_timestamp, job, runs, reaction_users,
                      correct_users, existing_users, failure, db, db0, command>>

(* --------------------------- specifications ---------------------------- *)
ReactionQueries == {"ok", "not_ok", "not_message"}
DbOutcomes == {"ok", "error"}
CommitStops == 0..(MaxUsers + 2)
OneRound == {1}

\* Spec: rounds in flight together, in one channel or two, updating the same
\* table.  Boolean questions, the default delay, the provider and the chat
\* platform answering; users attach and remove the correct marker.
SpecInputs ==
    [records |-> {TrueRecord}, failures |-> {}, seconds |-> {DEFAULT_SECONDS},
     channels |-> Channels, add_may_fail |-> FALSE]
SpecMarkers == {BOOLEAN_REACTS[1]}

Next ==
    \/ \E r \in Rounds : handle_trivia(r, SpecInputs)
    \/ \E r \in Rounds : Reveal(r, "ok", "ok")
    \/ \E r \in Rounds, stop \in CommitStops : Commit(r, stop)
    \/ \E r \in Rounds : PostAnswer(r)
    \/ \E u \in Humans, r \in Rounds, name \in SpecMarkers : AddReaction(u, r, name)
    \/ \E u \in Humans, r \in Rounds, name \in SpecMarkers : RemoveReaction(u, r, name)

Spec == Init /\ [][Next]_vars

\* RoundSpec: one round with every kind of question, every failure of the
\* provider, of the reactions query and of the database, and users attaching
\* and removing any marker.
RoundInputs ==
    [records |-> AllRecords, failures |-> FetchFailures, seconds |-> {DEFAULT_SECONDS},
     channels |-> {"random"}, add_may_fail |-> FALSE]

RoundNext ==
    \/ \E r \in OneRound : handle_trivia(r, RoundInputs)
    \/ \E r \in OneRound : trivia_cron_job(r, RoundInputs)
    \/ \E r \in OneRound, query \in ReactionQueries, dbq \in DbOutcomes : Reveal(r, query, dbq)
    \/ \E r \in OneRound, stop \in CommitStops : Commit(r, stop)
    \/ \E r \in OneRound : PostAnswer(r)
    \/ \E u \in Humans, r \in OneRound, name \in Markers : AddReaction(u, r, name)
    \/ \E u \in Humans, r \in OneRound, name \in Markers : RemoveReaction(u, r, name)

RoundSpec == Init /\ [][RoundNext]_vars

\* DelaySpec: one round for every value of -s from -1 to MaxRequested, and
\* the cron round; nobody but the bot reacts.
DelayInputs ==
    [records |-> {TrueRecord}, failures |-> {}, seconds |-> (-1)..MaxRequested,
     channels |-> {"random"}, add_may_fail |-> FALSE]

DelayNext ==
    \/ \E r \in OneRound : handle_trivia(r, DelayInputs)
    \/ \E r \in OneRound : trivia_cron_job(r, DelayInputs)
    \/ \E r \in OneRound, query \in ReactionQueries, dbq \in DbOutcomes : Reveal(r, query, dbq)
    \/ \E r \in OneRound, stop \in CommitStops : Commit(r, stop)
    \/ \E r \in OneRound : PostAnswer(r)

DelaySpec == Init /\ [][DelayNext]_vars

\* TallySpec: the reveal of one posted round whose anchor message carries any
\* tally of at most MaxTally markers, in any order (users can react between
\* the post and the bot's own reactions, and the bot's reactions can fail);
\* the table is empty before the round.
TallyEntries == [name : Markers, users : (SUBSET Users) \ {{}}]
Tallies ==
    {t \in UNION {[1..n -> TallyEntries] : n \in 0..MaxTally} :
        \A i, j \in 1..Len(t) : i # j => t[i].name # t[j].name}

\* One question per correct marker: the shuffles that leave the incorrect
\* answers in the provider's order.
TallyQuestions ==
    UNION {{q \in get_question_data([http_ok |-> TRUE, response_code |-> 0, result |-> rec]) :
              \A i, j \in 1..Len(q.answers) :
                  (i < j /\ q.answers[i] # q.correct_answer /\ q.answers[j] # q.correct_answer)
                      => IndexOf(QuestionOf(rec).answers, q.answers[i])
                           < IndexOf(QuestionOf(rec).answers, q.answers[j])} :
           rec \in AllRecords}

TallyInit ==
    /\ db = NoRows
    /\ db0 = db
    /\ \E q \in TallyQuestions, t \in Tallies :
         LET posted == post_question(<<>>, "random", 1, q, {})
         IN /\ messages = [posted.messages EXCEPT
                              ![MsgAt(posted.messages, posted.ts)].reactions = t]
            /\ question_data = [r \in Rounds |-> IF r = 1 THEN q ELSE NoQuestion]
            /\ post_timestamp = [r \in Rounds |-> IF r = 1 THEN posted.ts ELSE NoTimestamp]
    /\ pc = [r \in Rounds |-> IF r = 1 THEN "waiting" ELSE "idle"]
    /\ job = [r \in Rounds |-> IF r = 1 THEN schedule_action(DEFAULT_SECONDS) ELSE NoJob]
    /\ runs = [r \in Rounds |-> 0]
    /\ reaction_users = [r \in Rounds |-> <<>>]
    /\ correct_users = [r \in Rounds |-> {}]
    /\ existing_users = [r \in Rounds |-> NoRows]
    /\ failure = [r \in Rounds |-> ""]
    /\ command = [r \in Rounds |-> IF r = 1 THEN Trivia(DEFAULT_SECONDS) ELSE NoCommand]

TallyNext ==
    \/ \E r \in OneRound : Reveal(r, "ok", "ok")
    \/ \E r \in OneRound, stop \in CommitStops : Commit(r, stop)
    \/ \E r \in OneRound : PostAnswer(r)

TallySpec == TallyInit /\ [][TallyNext]_vars

\* StoreSpec: the reveals of MaxRounds + 1 posted rounds running together
\* against one table.  Every round asked the same Boolean question in one
\* channel and the first user attached the correct marker to each of them.
StoreRounds == 1..(MaxRounds + 1)

RECURSIVE StorePosted(_)
StorePosted(n) ==
    IF n = 0 THEN [messages |-> <<>>, ts |-> <<>>]
    ELSE LET before == StorePosted(n - 1)
             q == CHOOSE q \in TallyQuestions : q.correct_answer = "True"
             posted == post_question(before.messages, "random", n, q, Range(BOOLEAN_REACTS))
             i == MsgAt(posted.messages, posted.ts)
         IN [messages |-> [posted.messages EXCEPT
                              ![i].reactions = AddUser(@, get_correct_reaction(q), 1)],
             ts |-> Append(before.ts, posted.ts)]

StoreInit ==
    /\ InitDb
    /\ messages = StorePosted(MaxRounds + 1).messages
    /\ post_timestamp = [r \in StoreRounds |-> StorePosted(MaxRounds + 1).ts[r]]
    /\ question_data = [r \in StoreRounds |->
                           CHOOSE q \in TallyQuestions : q.correct_answer = "True"]
    /\ pc = [r \in StoreRounds |-> "waiting"]
    /\ job = [r \in StoreRounds |-> schedule_action(DEFAULT_SECONDS)]
    /\ runs = [r \in StoreRounds |-> 0]
    /\ reaction_users = [r \in StoreRounds |-> <<>>]
    /\ correct_users = [r \in StoreRounds |-> {}]
    /\ existing_users = [r \in StoreRounds |-> NoRows]
    /\ failure = [r \in StoreRounds |-> ""]
    /\ command = [r \in StoreRounds |-> Trivia(DEFAULT_SECONDS)]

StoreNext ==
    \/ \E r \in StoreRounds : Reveal(r, "ok", "ok")
    \/ \E r \in StoreRounds, stop \in CommitStops : Commit(r, stop)
    \/ \E r \in StoreRounds : PostAnswer(r)

StoreSpec == StoreInit /\ [][StoreNext]_vars

\* PairSpec: rounds in flight together with different Boolean questions, in
\* one channel or two; users attach either Boolean marker.
PairInputs ==
    [records |-> {TrueRecord, FalseRecord}, failures |-> {}, seconds |-> {DEFAULT_SECONDS},
     channels |-> Channels, add_may_fail |-> FALSE]
PairMarkers == Range(BOOLEAN_REACTS)
TwoRounds == {1, 2}

PairNext ==
    \/ \E r \in TwoRounds : handle_trivia(r, PairInputs)
    \/ \E r \in TwoRounds : Reveal(r, "ok", "ok")
    \/ \E r \in TwoRounds, stop \in CommitStops : Commit(r, stop)
    \/ \E r \in TwoRounds : PostAnswer(r)
    \/ \E u \in Humans, r \in TwoRounds, name \in PairMarkers : AddReaction(u, r, name)

\* The table is empty before the rounds.
PairInit == InitRounds /\ db = NoRows /\ db0 = db

PairSpec == PairInit /\ [][PairNext]_vars

\* QuestionSpec: one round for provider records with no, one, three and four
\* incorrect answers; nobody but the bot reacts and the table starts empty.
LoneRecord == [question |-> Enc("Q_lone"), correct_answer |-> Enc("A"),
               incorrect_answers |-> <<>>]
FiveRecord == [question |-> Enc("Q_five"), correct_answer |-> Enc("A"),
               incorrect_answers |-> <<Enc("B"), Enc("C"), Enc("D"), Enc("E")>>]
QuestionInputs ==
    [records |-> AllRecords \cup {LoneRecord, FiveRecord}, failures |-> {},
     seconds |-> {DEFAULT_SECONDS}, channels |-> {"random"}, add_may_fail |-> FALSE]

QuestionNext ==
    \/ \E r \in OneRound : handle_trivia(r, QuestionInputs)
    \/ \E r \in OneRound : Reveal(r, "ok", "ok")
    \/ \E r \in OneRound, stop \in CommitStops : Commit(r, stop)
    \/ \E r \in OneRound : PostAnswer(r)

QuestionSpec == PairInit /\ [][QuestionNext]_vars

\* BoardSpec: a round of a Boolean question and a leaderboard request, in
\* either order or together; users attach the correct marker; the directory
\* may be unable to resolve any of the users.
BoardInputs ==
    [records |-> {TrueRecord}, failures |-> {}, seconds |-> {DEFAULT_SECONDS},
     channels |-> {"random"}, add_may_fail |-> FALSE]
BoardUnknowns == SUBSET Humans

BoardNext ==
    \/ \E r \in TwoRounds : handle_trivia(r, BoardInputs)
    \/ \E r \in TwoRounds : handle_trivia_leaderboard(r, BoardInputs.channels, BoardUnknowns)
    \/ \E r \in TwoRounds : Reveal(r, "ok", "ok")
    \/ \E r \in TwoRounds, stop \in CommitStops : Commit(r, stop)
    \/ \E r \in TwoRounds : PostAnswer(r)
    \/ \E u \in Humans, r \in TwoRounds, name \in SpecMarkers : AddReaction(u, r, name)

BoardSpec == Init /\ [][BoardNext]_vars

\* AttachSpec: one round in which any of the bot's reactions.add calls can
\* fail; nobody but the bot reacts.
AttachInputs ==
    [records |-> {TrueRecord, ChoiceRecord}, failures |-> {}, seconds |-> {DEFAULT_SECONDS},
     channels |-> {"random"}, add_may_fail |-> TRUE]

AttachNext ==
    \/ \E r \in OneRound : handle_trivia(r, AttachInputs)
    \/ \E r \in OneRound : Reveal(r, "ok", "ok")
    \/ \E r \in OneRound, stop \in CommitStops : Commit(r, stop)
    \/ \E r \in OneRound : PostAnswer(r)

AttachSpec == Init /\ [][AttachNext]_vars

(* ------------------------------ claims --------------------------------- *)
\* The answer family of a marker: the boolean pair or the multiple-choice set.
FamilyOf(marker) ==
    IF marker \in {"this", "not-this"} THEN {"this", "not-this"}
    ELSE {"green_heart", "yellow_heart", "heart", "blue_heart"}

\* u is among the users of marker name in tally t.
ReactedWith(u, t, name) == \E i \in 1..Len(t) : t[i].name = name /\ u \in t[i].users

\* u reacted with the correct marker and with another marker of its family.
MultiReacted(u, t, marker) ==
    /\ ReactedWith(u, t, marker)
    /\ \E other \in FamilyOf(marker) \ {marker} : ReactedWith(u, t, other)

AnchorTally(r) == messages[MsgAt(messages, post_timestamp[r])].reactions
CorrectMarker(r) == get_correct_reaction(question_data[r])
Scored(r) == pc[r] \in {"settled", "done"} /\ failure[r] = ""

\* C1: anti-cheat.  Whatever tally the reveal reads, a user who reacted with
\* the correct marker and with another marker of the same family is not in the
\* set get_correct_users returns, and the commit of that round leaves the
\* user's score as it was.
C1_AntiCheat ==
    [][\A r \in Rounds, u \in Users :
         /\ (pc[r] = "waiting" /\ pc'[r] = "queried"
               /\ MultiReacted(u, reaction_users'[r], CorrectMarker(r)))
              => u \notin correct_users'[r]
         /\ (pc[r] = "queried" /\ pc'[r] # "queried"
               /\ MultiReacted(u, reaction_users[r], CorrectMarker(r)))
              => db'[u] = db[u]]_vars

\* A round was scored from a tally in which one user multi-reacted and got
\* nothing while another user got the point.
C1_Witness ==
    \E r \in Rounds, u, v \in Users :
        /\ pc[r] = "done" /\ failure[r] = ""
        /\ MultiReacted(u, AnchorTally(r), CorrectMarker(r))
        /\ db[u] = db0[u]
        /\ db[v] = db0[v] + 1

\* The users an anti-cheat reading of tally t credits for marker.
Winners(t, marker) ==
    {u \in Users : ReactedWith(u, t, marker) /\ ~MultiReacted(u, t, marker)}

\* The messages invocation r posted, in order.
PostedBy(r) == SelectSeq(messages, LAMBDA m : m.inv = r)
KindsBy(r) == [i \in 1..Len(PostedBy(r)) |-> PostedBy(r)[i].kind]
AnswerPosted(r) == \E i \in 1..Len(messages) : messages[i].inv = r /\ messages[i].kind = "answer"

\* C2: no lost update.  (The tally of an anchor does not change once its
\* reveal has read it, so the users a finished round credited are the winners
\* of its anchor's tally.)  When two rounds have both completed their update
\* and no other round has committed, a user credited by both has a score 2
\* above the score before the rounds (2 for a user without a record).
C2_NoLostUpdate ==
    \A r1, r2 \in Rounds, u \in Users :
        (/\ r1 # r2
         /\ pc[r1] = "done" /\ failure[r1] = ""
         /\ pc[r2] = "done" /\ failure[r2] = ""
         /\ \A r3 \in Rounds \ {r1, r2} : pc[r3] \in {"idle", "aborted", "waiting", "queried"}
         /\ u \in Winners(AnchorTally(r1), CorrectMarker(r1))
         /\ u \in Winners(AnchorTally(r2), CorrectMarker(r2)))
        => db[u] = db0[u] + 2

\* C3: the job of a round runs the reveal callback at most once: once it has
\* run the job is gone, and the answer of the round is posted at most once.
C3_AtMostOnce ==
    \A r \in Rounds :
        /\ runs[r] <= 1
        /\ (runs[r] = 1 => job[r] = NoJob)
        /\ Cardinality({i \in 1..Len(messages) :
                          messages[i].inv = r /\ messages[i].kind = "answer"}) <= 1

\* A round has been revealed and its job has been removed.
C3_Witness == \E r \in Rounds : runs[r] = 1 /\ pc[r] = "done" /\ job[r] = NoJob /\ AnswerPosted(r)

\* C4: when the database fails during the reveal (at the query or at the
\* commit), the callback still posts the reveal message and no score changes.
C4_RevealDespitePersistenceError ==
    \A r \in Rounds :
        (failure[r] \in {"query", "commit"} /\ ~InCallback(r))
            => (AnswerPosted(r) /\ db = db0)

\* C5: scoring is all-or-nothing.  With one round, whenever its
\* update_leaderboard has failed (reactions query, session query or commit,
\* after any number of statements), the table is the table before the round.
C5_AllOrNothing ==
    \A r \in Rounds : failure[r] # "" => db = db0

\* The commit of a round with two correct users failed.
C5_Witness ==
    \E r \in Rounds :
        /\ pc[r] = "crashed" /\ failure[r] = "commit"
        /\ Cardinality(Winners(AnchorTally(r), CorrectMarker(r))) >= 2

\* C6: score application.  The successful commit of a round whose correct
\* users are C adds 1 to the score of every user of C with a row, gives every
\* other user of C a row with score 1, and leaves the other users' rows alone.
C6_ScoreApplication ==
    [][\A r \in Rounds :
         (pc[r] = "queried" /\ pc'[r] = "settled")
            => \A u \in Users :
                 db'[u] = IF u \in correct_users[r]
                          THEN (IF db[u] > 0 THEN db[u] + 1 ELSE 1)
                          ELSE db[u]]_vars

\* A round was scored: one user went from a positive score to one more, one
\* user got a first row, and one user's row was left alone.
C6_Witness ==
    \E r \in Rounds, u, v, w \in Users :
        /\ pc[r] \in {"settled", "done"} /\ failure[r] = ""
        /\ db0[u] > 0 /\ db[u] = db0[u] + 1
        /\ db0[v] = 0 /\ db[v] = 1
        /\ w \notin {u, v} /\ db[w] = db0[w]

\* C7: when the reactions query is not ok or not for a message, the error is
\* posted to the channel, no score changes, the callback goes on to
\* post_answer, and the reveal message follows the error message.
C7_ReactionQueryError ==
    \A r \in Rounds :
        failure[r] = "reaction_query"
            => /\ db = db0
               /\ pc[r] \in {"settled", "done"}
               /\ \E i \in 1..Len(KindsBy(r)) :
                    /\ KindsBy(r)[i] = "score_error"
                    /\ PostedBy(r)[i].channel = post_timestamp[r][1]
                    /\ pc[r] = "done" => (i < Len(KindsBy(r)) /\ KindsBy(r)[i + 1] = "answer")

\* The reveal of a round whose reactions could not be read has been posted.
C7_Witness == \E r \in Rounds : failure[r] = "reaction_query" /\ pc[r] = "done" /\ AnswerPosted(r)

\* C8: the reveal reads the tally as it is when the job fires: the tally it
\* works from is the anchor's tally of that moment, so a user's marker is
\* counted exactly if it is attached then; and the reveal message is posted
\* only once scoring has been settled.
C8_LiveRead ==
    [][\A r \in Rounds :
         /\ (pc[r] = "waiting" /\ pc'[r] = "queried")
              => /\ reaction_users'[r] = AnchorTally(r)
                 /\ \A u \in Users, name \in Markers :
                      ReactedWith(u, reaction_users'[r], name)
                          <=> ReactedWith(u, AnchorTally(r), name)
         /\ (~AnswerPosted(r) /\ AnswerPosted(r)') => pc[r] = "settled"]_vars

\* A reveal counted a marker a user attached after the question was posted.
C8_Witness ==
    \E r \in Rounds, u \in Humans :
        /\ pc[r] = "queried"
        /\ ReactedWith(u, reaction_users[r], CorrectMarker(r))
        /\ u \in correct_users[r]

\* C9: once the reveal of a round is scheduled, its reveal message is
\* eventually posted (the scheduler runs due jobs, callbacks proceed).
C9_RevealEventuallyPosted ==
    \A r \in OneRound : (pc[r] = "waiting") ~> AnswerPosted(r)

\* C10: a retrieval error aborts the invocation with exactly one message, the
\* error: no question, no answer list, no reactions, no reveal job.
C10_RetrievalErrorAborts ==
    \A r \in Rounds :
        pc[r] = "aborted"
            => /\ KindsBy(r) = <<"error">>
               /\ PostedBy(r)[1].reactions = <<>>
               /\ job[r] = NoJob

\* The scheduler runs due jobs and a running callback proceeds.
Progress ==
    \/ \E r \in OneRound, query \in ReactionQueries, dbq \in DbOutcomes : Reveal(r, query, dbq)
    \/ \E r \in OneRound, stop \in CommitStops : Commit(r, stop)
    \/ \E r \in OneRound : PostAnswer(r)

FairDelaySpec == DelaySpec /\ WF_vars(Progress)

\* C11: stray markers are ignored.  Whatever tally the reveal reads, the set
\* get_correct_users returns is the users of the correct marker minus the
\* users of the other markers of its family; a user with the correct marker
\* and no other marker of the family is in it, whatever markers outside the
\* family that user attached.
C11_StrayMarkersIgnored ==
    [][\A r \in Rounds :
         (pc[r] = "waiting" /\ pc'[r] = "queried")
            => /\ correct_users'[r] =
                    {u \in Users :
                        /\ ReactedWith(u, AnchorTally(r), CorrectMarker(r))
                        /\ \A other \in FamilyOf(CorrectMarker(r)) \ {CorrectMarker(r)} :
                              ~ReactedWith(u, AnchorTally(r), other)}
               /\ \A u \in Users :
                    (/\ ReactedWith(u, AnchorTally(r), CorrectMarker(r))
                     /\ \A other \in FamilyOf(CorrectMarker(r)) \ {CorrectMarker(r)} :
                           ~ReactedWith(u, AnchorTally(r), other))
                        => u \in correct_users'[r]]_vars

\* A user with the correct marker and a marker outside its family is among
\* the correct users.
C11_Witness ==
    \E r \in Rounds, u \in Users :
        /\ pc[r] = "queried"
        /\ \E name \in Markers \ FamilyOf(CorrectMarker(r)) :
              ReactedWith(u, reaction_users[r], name)
        /\ u \in correct_users[r]

\* C12: when the correct marker is not in the tally the reveal reads, the
\* correct-user set is empty, no error ends the round, no score changes and
\* the reveal message is posted: a round that has ended with such a tally
\* has failed nowhere, left the table as it was and posted its answer.
C12_AbsentMarker ==
    \A r \in Rounds :
        (pc[r] \in {"done", "crashed"} /\ ~HasName(AnchorTally(r), CorrectMarker(r)))
            => (failure[r] = "" /\ db = db0 /\ AnswerPosted(r))

\* C13: a round credits a user at most once.  From its post to the end of
\* its reveal the round raises no score by more than 1 and lowers none,
\* however many markers the user attached.
C13_CreditedAtMostOnce ==
    \A u \in Users : db0[u] <= db[u] /\ db[u] <= db0[u] + 1

\* A user who attached the correct marker and a second marker has been
\* credited by the finished round, by exactly 1.
C13_Witness ==
    \E r \in OneRound, u \in Humans :
        /\ pc[r] = "done" /\ runs[r] = 1
        /\ ReactedWith(u, AnchorTally(r), CorrectMarker(r))
        /\ \E name \in Markers \ {CorrectMarker(r)} : ReactedWith(u, AnchorTally(r), name)
        /\ db[u] = db0[u] + 1

\* C14: the leaderboard table over any interleaving of rounds.  The table
\* holds one score per user id (a row exists when the score is at least 1);
\* no step deletes a row and no step lowers a score.
C14_StoreInvariant ==
    [][\A u \in Users :
          /\ db'[u] >= db[u]
          /\ (db[u] >= 1 => db'[u] >= 1)]_vars

\* The message invocation r attached its markers to: the last question or
\* answers message it posted.
OwnAnchor(r) ==
    CHOOSE i \in 1..Len(messages) :
        /\ messages[i].inv = r /\ messages[i].kind \in {"question", "answers"}
        /\ \A j \in (i + 1)..Len(messages) :
              ~(messages[j].inv = r /\ messages[j].kind \in {"question", "answers"})

\* The question invocation r posted, and the marker of its answer (Boolean
\* questions).
OwnQuestion(r) ==
    messages[CHOOSE i \in 1..Len(messages) :
                 messages[i].inv = r /\ messages[i].kind = "question"].body[1]
OwnMarker(r) == IF OwnQuestion(r) = "Q_true" THEN "this" ELSE "not-this"

\* C15: concurrent rounds do not interfere.  The reveal of a round reads the
\* tally of the message that round attached its markers to and resolves the
\* correct users with the marker of its own question; the answer it posts is
\* that of its own question, in its own channel; no step changes the question
\* or the anchor timestamp a round holds, and two rounds hold different anchors.
C15_NoInterference ==
    [][\A r \in Rounds :
         /\ (pc[r] = "waiting" /\ pc'[r] = "queried")
              => /\ reaction_users'[r] = messages[OwnAnchor(r)].reactions
                 /\ correct_users'[r] = Winners(messages[OwnAnchor(r)].reactions, OwnMarker(r))
         /\ (pc[r] = "settled" /\ pc'[r] = "done")
              => /\ Len(messages') = Len(messages) + 1
                 /\ messages'[Len(messages')].kind = "answer"
                 /\ messages'[Len(messages')].channel = messages[OwnAnchor(r)].channel
                 /\ messages'[Len(messages')].body = <<OwnQuestion(r), OwnMarker(r)>>
         /\ (pc[r] \notin {"idle", "aborted"})
              => /\ question_data'[r] = question_data[r]
                 /\ post_timestamp'[r] = post_timestamp[r]
                 /\ post_timestamp[r] = <<messages[OwnAnchor(r)].channel, messages[OwnAnchor(r)].ts>>
         /\ \A r2 \in Rounds \ {r} :
              (pc[r] \notin {"idle", "aborted"} /\ pc[r2] \notin {"idle", "aborted"})
                 => post_timestamp[r] # post_timestamp[r2]]_vars

\* Two reveals are in progress at once, for different questions whose anchors
\* have the same timestamp in different channels, and they resolved
\* different sets of correct users.
C15_Witness ==
    \E r, r2 \in Rounds :
        /\ pc[r] = "queried" /\ pc[r2] = "queried"
        /\ CorrectMarker(r) # CorrectMarker(r2)
        /\ post_timestamp[r][1] # post_timestamp[r2][1]
        /\ post_timestamp[r][2] = post_timestamp[r2][2]
        /\ correct_users[r] # {} /\ correct_users[r2] # {}
        /\ correct_users[r] # correct_users[r2]

\* C16: the question invariant.  The question of every posted round is
\* Boolean with exactly 2 candidate answers or a multiple-choice question with
\* at most 4; its correct answer is among the candidates, its correct marker
\* is defined, and for a multiple-choice question the correct answer is among
\* the candidates that were posted.
C16_QuestionInvariant ==
    \A r \in Rounds :
        pc[r] \notin {"idle", "aborted"}
            => LET q == question_data[r]
               IN /\ q.is_boolean => Len(q.answers) = 2
                  /\ ~q.is_boolean => Len(q.answers) <= 4
                  /\ q.correct_answer \in Range(q.answers)
                  /\ get_correct_reaction(q) \in Range(MULTIPLE_CHOICE_REACTS) \cup Range(BOOLEAN_REACTS)
                  /\ ~q.is_boolean
                       => q.correct_answer \in Range(messages[OwnAnchor(r)].body)

\* C17: the delay clamp.  While the reveal of a round is scheduled, its
\* period is the value of -s brought into 5..300 (below 5 it is 5, above 300
\* it is 300, otherwise unchanged) for a round started by !trivia, and
\* exactly 600 for the cron round; the first run is that many seconds after
\* the registration.
C17_DelayClamp ==
    \A r \in Rounds :
        job[r] # NoJob
            => LET s == command[r].seconds
                   delay == IF command[r].source = "cron" THEN 600
                            ELSE IF s < 5 THEN 5
                            ELSE IF s > 300 THEN 300
                            ELSE s
               IN job[r].seconds = delay /\ job[r].next_run_time = delay

\* A round asked for with more than 300 seconds waits for a reveal scheduled
\* after 300.
C17_Witness ==
    \E r \in Rounds :
        /\ pc[r] = "waiting" /\ command[r].source = "trivia"
        /\ command[r].seconds > 300
        /\ job[r].seconds = 300

\* C18: the leaderboard lists the records in descending order of score: in
\* every posted table a row never follows a row with a lower score.
C18_DescendingOrder ==
    \A i \in 1..Len(messages) :
        messages[i].kind = "leaderboard"
            => \A a, b \in 1..Len(messages[i].body) :
                   a < b => messages[i].body[a].score >= messages[i].body[b].score

\* C19: a lookup failure degrades the leaderboard per row.  When the display
\* name of a stored user id cannot be resolved, the request still posts the
\* table, with one row for every record, some row showing the raw user id.
C19_LookupDegrades ==
    [][\A r \in Rounds :
         (pc[r] = "idle" /\ pc'[r] # "idle" /\ command'[r].source = "leaderboard"
            /\ failure'[r] = "lookup")
           => /\ Len(messages') = Len(messages) + 1
              /\ LET m == messages'[Len(messages')]
                 IN /\ m.kind = "leaderboard" /\ m.inv = r
                    /\ {m.body[i].name[2] : i \in 1..Len(m.body)} = {u \in Users : db[u] >= 1}
                    /\ \E i \in 1..Len(m.body) : m.body[i].name[1] = "id"]_vars

\* C20: the bot never earns a point.  The bot is in no round's set of
\* correct users and the table never holds a record for it.
C20_BotNeverScores ==
    /\ db[Bot] = 0
    /\ \A r \in Rounds : Bot \notin correct_users[r]

====
